---- MODULE Spec2Model ----
(***************************************************************************)
(* The two epsilon-DP notebooks (Laplace and Geometric mechanism) as a     *)
(* state machine over the kernel namespace: every code cell is one action, *)
(* a cell that raises keeps the assignments made before the raising line.  *)
(*                                                                         *)
(* Numbers.  A Python float is a record [tag, n, d, neg]: the rational n/d *)
(* (d > 0, lowest terms), or inf / nan; neg is the sign bit of a zero.     *)
(* The cells of a float table are fixed-point integers in units of 1/Den.  *)
(* The quotient of the scale, the epsilon grid and the sums of the         *)
(* statistics are rounded to a significand of Mantissa bits after every    *)
(* operation, to nearest, ties to even.                                    *)
(* Objects.  DataFrames live in heap, the names truetab, noisytab and      *)
(* noisytabpost hold references, so that an assignment binds a name to an  *)
(* existing object and an indexed assignment mutates the object.           *)
(***************************************************************************)
EXTENDS Integers, Sequences, FiniteSets, TLC

\* ---------------------------------------------------------------- bounds
MaxRecs == 2    \* numrecs, the size of the dummy population
Den == 2        \* a float table cell is a multiple of 1/Den
MaxNoise == 2   \* a Laplace draw lies in -MaxNoise/Den .. MaxNoise/Den
MaxGeo == 2     \* a geometric draw lies in 1 .. MaxGeo
MaxRuns == 4    \* cell executions per kernel session
PScale == 10000000  \* exp is computed to a multiple of 1/PScale
ExpTerms == 14  \* terms of the exponential series
Mantissa == 11  \* bits of the significand of a float
EScale == 1024  \* 10**x is computed to a multiple of 1/EScale
MaxCount == 21  \* epscnt, the steps of the epsilon grid
MaxDraws == 2   \* numrecs of the tradeoff notebook, the draws per epsilon
MaxRows == 8    \* rows of the data structure of the simulation

\* ------------------------------------------------------------------ state
VARIABLES
    kind,          \* which notebook the kernel runs: "Laplace" or "Geometric"
    lit,           \* the literals of the noise cell: sensitivity and epsilon
    myrecs,        \* the dummy population
    heap,          \* the DataFrame objects, by allocation site
    truetab,       \* reference into heap
    sensitivity, epsilon, scale, probability,
    noise,         \* ndarray
    noisytab,      \* reference into heap
    noisytabpost,  \* reference into heap
    errortab, pcterrortab, errorsum, truesum, errorrel,
    defined,       \* the names bound in the kernel namespace
    error,         \* what the last executed cell raised, or "none"
    runs,          \* cells executed so far
    tlit,          \* the literals of the tradeoff notebook
    epsmin, epsmax, epscnt,
    epsset,        \* list of floats
    numrecs,
    meanerror,
    df,            \* the data structure of the simulation, row by row
    stats          \* the aggregated result, row by row

\* The names of the tradeoff notebook alone.
tvars == <<tlit, epsmin, epsmax, epscnt, epsset, numrecs, meanerror, df, stats>>

vars == <<kind, lit, myrecs, heap, truetab, sensitivity, epsilon, scale,
          probability, noise, noisytab, noisytabpost, errortab, pcterrortab,
          errorsum, truesum, errorrel, defined, error, runs, tvars>>

errvars == <<errortab, pcterrortab, errorsum, truesum, errorrel>>

\* The names of the table notebooks alone.
pvars == <<lit, myrecs, heap, truetab, probability, noisytab, noisytabpost, errvars>>

\* ------------------------------------------------------------ arithmetic
Abs(x) == IF x < 0 THEN -x ELSE x

Max(a, b) == IF a >= b THEN a ELSE b

\* Euclid's algorithm; a function, so that its argument is a value.
Euclid[p \in Nat \X Nat] ==
    IF p[2] = 0 THEN p[1] ELSE Euclid[<<p[2], p[1] % p[2]>>]


\* The float n/d (d # 0) in lowest terms; a zero keeps its sign bit.
Normal[a \in Int \X Int \X BOOLEAN] ==
    LET g == Euclid[<<Abs(a[1]), Abs(a[2])>>]
        s == IF a[2] < 0 THEN -1 ELSE 1
    IN  [tag |-> "num", n |-> (s * a[1]) \div g, d |-> Abs(a[2]) \div g,
         neg |-> (a[1] = 0 /\ a[3])]

Float(n, d, neg) == Normal[<<n, d, neg>>]

Lit(n, d) == Float(n, d, FALSE)

Zero == Lit(0, 1)
Inf == [tag |-> "inf", n |-> 1, d |-> 1, neg |-> FALSE]
NaN == [tag |-> "nan", n |-> 0, d |-> 1, neg |-> FALSE]

SignBit(x) == x.n < 0 \/ x.neg

\* Python's a / b on two finite floats, b # 0.
PyDiv(a, b) == Float(a.n * b.d, a.d * b.n, SignBit(a) # SignBit(b))

\* NpDiv that gives 0 for a zero denominator.
NpDivZeroForZero(a, b) ==
    IF b = 0 THEN Zero ELSE Lit(a, b)

\* numpy's a / b on integer scalars or cells: never raises.
NpDiv(a, b) ==
    IF b = 0 THEN (IF a = 0 THEN NaN ELSE Inf) ELSE Lit(a, b)

\* Round that adds one half before rounding.
RoundPlusHalf(x) ==
    LET y == x + Den \div 2
        q == y \div Den
        r == y % Den
    IN  IF 2 * r < Den THEN q
        ELSE IF 2 * r > Den THEN q + 1
        ELSE IF q % 2 = 0 THEN q ELSE q + 1

\* numpy's around on a fixed-point value: nearest integer, ties to even.
Round(x) ==
    LET q == x \div Den
        r == x % Den
    IN  IF 2 * r < Den THEN q
        ELSE IF 2 * r > Den THEN q + 1
        ELSE IF q % 2 = 0 THEN q ELSE q + 1

\* ---------------------------------------------------------------- tables
\* The valid values (lines 86-88, 378-380).  Of the five occupations the
\* cells keep the rare one, which gives the table its true zeros; every
\* operator below takes the shape from its argument and works for any list.
occvalid == <<"Unicorn Wrangler">>
sexvalid == <<"M", "F">>

Range(s) == {s[i] : i \in DOMAIN s}

Pos(shape) == (1 .. shape[1]) \X (1 .. shape[2])

\* A DataFrame: row labels, column labels, dtype and the cells by position.
Shape(frame) == <<Len(frame.index), Len(frame.columns)>>

RECURSIVE SumOver(_, _)
SumOver(f, S) ==
    IF S = {} THEN 0
    ELSE LET x == CHOOSE y \in S : TRUE IN f[x] + SumOver(f, S \ {x})

\* SumSum that stops after the first column: df.sum()[0].
SumFirstColumn(frame) == SumOver(frame.cells, {p \in DOMAIN frame.cells : p[2] = 1})

\* df.sum().sum()
SumSum(frame) == SumOver(frame.cells, DOMAIN frame.cells)

\* Crosstab that marks the pairs that occur instead of counting them.
CrosstabPresence(recs) ==
    LET rows == {recs[k].Occupation : k \in DOMAIN recs}
        cols == {recs[k].Sex : k \in DOMAIN recs}
    IN  [rows |-> rows, cols |-> cols,
         cnt |-> [rc \in rows \X cols |->
                    IF \E k \in DOMAIN recs :
                          recs[k].Occupation = rc[1] /\ recs[k].Sex = rc[2]
                    THEN 1 ELSE 0]]

\* pd.crosstab: one row and one column per label that occurs in the records.
Crosstab(recs) ==
    LET rows == {recs[k].Occupation : k \in DOMAIN recs}
        cols == {recs[k].Sex : k \in DOMAIN recs}
    IN  [rows |-> rows, cols |-> cols,
         cnt |-> [rc \in rows \X cols |->
                    Cardinality({k \in DOMAIN recs :
                        recs[k].Occupation = rc[1] /\ recs[k].Sex = rc[2]})]]

\* Reindex that keeps only the labels the crosstab has.
ReindexPresent(ct, index, columns) ==
    LET rows == SelectSeq(index, LAMBDA x : x \in ct.rows)
        cols == SelectSeq(columns, LAMBDA x : x \in ct.cols)
    IN  [index |-> rows, columns |-> cols, dtype |-> "int",
         cells |-> [p \in Pos(<<Len(rows), Len(cols)>>) |->
                      ct.cnt[<<rows[p[1]], cols[p[2]]>>]]]

\* DataFrame.reindex(index=, columns=, fill_value=0)
Reindex(ct, index, columns) ==
    [index |-> index, columns |-> columns, dtype |-> "int",
     cells |-> [p \in Pos(<<Len(index), Len(columns)>>) |->
                  IF index[p[1]] \in ct.rows /\ columns[p[2]] \in ct.cols
                  THEN ct.cnt[<<index[p[1]], columns[p[2]]>>] ELSE 0]]

\* The populations of at most MaxRecs records, up to the order of the
\* records, which the crosstab does not see: the records of the first sex
\* come first.
Populations ==
    {recs \in UNION {[1 .. n -> [Occupation : Range(occvalid), Sex : Range(sexvalid)]] :
                        n \in 0 .. MaxRecs} :
        \A i, j \in DOMAIN recs :
            (i < j /\ recs[i].Sex # sexvalid[1]) => recs[j].Sex # sexvalid[1]}

\* np.exp on the float x, by its series, to a multiple of 1/PScale.
ExpTerm[a \in Int \X Nat \X Nat] ==
    IF a[3] = 0 THEN PScale
    ELSE (ExpTerm[<<a[1], a[2], a[3] - 1>>] * a[1]) \div (a[2] * a[3])

ExpSeries[a \in Int \X Nat \X Nat] ==
    IF a[3] > ExpTerms THEN 0
    ELSE ExpTerm[a] + ExpSeries[<<a[1], a[2], a[3] + 1>>]

Exp(x) == IF x.n = 0 THEN Lit(1, 1) ELSE Lit(ExpSeries[<<x.n, x.d, 0>>], PScale)

Neg(x) == IF x.n = 0 THEN [x EXCEPT !.neg = ~x.neg] ELSE [x EXCEPT !.n = -x.n]

\* 1 - x
OneMinus(x) == Float(x.d - x.n, x.d, FALSE)

\* Probability without the complement: np.exp(-epsilon/sensitivity).
ProbabilityNoComplement(s, e) == Exp(Neg(PyDiv(e, s)))

\* Line 146, probability=1-np.exp(-epsilon/sensitivity)
Probability(s, e) == OneMinus(Exp(Neg(PyDiv(e, s))))

\* ------------------------------------------------------------------ noise
Array(shape, dtype, cells) == [shape |-> shape, dtype |-> dtype, cells |-> cells]

NoArray == Array(<<0, 0>>, "int", [p \in Pos(<<0, 0>>) |-> 0])

\* LaplaceDraws that leaves the cells with a true count of 0 without noise.
LaplaceDrawsSkipZeros(sc, shape) ==
    {Array(shape, "float", c) :
        c \in {f \in [Pos(shape) -> IF sc.n = 0 THEN {0} ELSE -MaxNoise .. MaxNoise] :
                  \A p \in Pos(shape) : heap[truetab].cells[p] = 0 => f[p] = 0}}

\* np.random.laplace(0, scale, shape): any real per cell, 0 when scale is 0.
LaplaceDraws(sc, shape) ==
    {Array(shape, "float", c) :
        c \in [Pos(shape) -> IF sc.n = 0 THEN {0} ELSE -MaxNoise .. MaxNoise]}

\* np.random.geometric(p, shape): trials to the first success, 1 when p is 1.
GeometricDraws(p, shape) ==
    {Array(shape, "int", c) :
        c \in [Pos(shape) -> IF p = Lit(1, 1) THEN {1} ELSE 1 .. MaxGeo]}

\* ArraySub that keeps the distance of the two draws: np.abs(a - b).
ArraySubAbs(a, b) ==
    Array(a.shape, "int", [p \in Pos(a.shape) |-> Abs(a.cells[p] - b.cells[p])])

\* ndarray - ndarray
ArraySub(a, b) == Array(a.shape, "int", [p \in Pos(a.shape) |-> a.cells[p] - b.cells[p]])

\* ------------------------------------------------------------- DataFrames
Frame(index, columns, dtype, cells) ==
    [index |-> index, columns |-> columns, dtype |-> dtype, cells |-> cells]

NoFrame == Frame(<<>>, <<>>, "int", [p \in Pos(<<0, 0>>) |-> 0])

\* NoiseShape with rows and columns exchanged.
NoiseShapeTransposed(frame) == <<Len(frame.columns), Len(frame.index)>>

\* truetab.shape, the size argument of the draws (lines 154, 475)
NoiseShape(frame) == Shape(frame)

\* DataFrame + ndarray is positional and needs equal shapes.
CanAdd(frame, arr) == arr.shape = Shape(frame)

\* An int cell v as a cell of dtype: fixed point for float.
Cast(v, from, to) == IF from = "int" /\ to = "float" THEN v * Den ELSE v

AddDtype(frame, arr) == IF frame.dtype = "float" \/ arr.dtype = "float" THEN "float" ELSE "int"

\* Add with the sign of the noise exchanged: df - arr.
Subtract(frame, arr) ==
    LET t == AddDtype(frame, arr)
    IN  Frame(frame.index, frame.columns, t,
              [p \in DOMAIN frame.cells |->
                  Cast(frame.cells[p], frame.dtype, t) - Cast(arr.cells[p], arr.dtype, t)])

Add(frame, arr) ==
    LET t == AddDtype(frame, arr)
    IN  Frame(frame.index, frame.columns, t,
              [p \in DOMAIN frame.cells |->
                  Cast(frame.cells[p], frame.dtype, t) + Cast(arr.cells[p], arr.dtype, t)])

\* DataFrame.round().astype(np.int)
RoundAsInt(frame) ==
    Frame(frame.index, frame.columns, "int",
          [p \in DOMAIN frame.cells |->
              Round(Cast(frame.cells[p], frame.dtype, "float"))])

\* Clamp with the threshold off by one: df[df < -1] = 0.
ClampBelowMinusOne(frame) ==
    [frame EXCEPT !.cells = [p \in DOMAIN frame.cells |->
                            IF frame.cells[p] < -1 THEN 0 ELSE frame.cells[p]]]

\* df[df < 0] = 0, the value the object df holds afterwards
Clamp(frame) == [frame EXCEPT !.cells = [p \in DOMAIN frame.cells |-> Max(0, frame.cells[p])]]

\* AbsDiff without np.abs.
SignedDiff(a, b) ==
    Frame(a.index, a.columns, "int",
          [p \in DOMAIN a.cells |-> a.cells[p] - b.cells[p]])

\* np.abs(a - b) of two int frames with the same labels
AbsDiff(a, b) ==
    Frame(a.index, a.columns, "int",
          [p \in DOMAIN a.cells |-> Abs(a.cells[p] - b.cells[p])])

\* a / b cell by cell
FrameDiv(a, b) ==
    Frame(a.index, a.columns, "float",
          [p \in DOMAIN a.cells |-> NpDiv(a.cells[p], b.cells[p])])

\* ------------------------------------------------------- tradeoff notebook
\* The floats of the epsilon grid are binary floats with a significand of
\* Mantissa bits, rounded to nearest, ties to even, after every operation.
Pow2[k \in Nat] == IF k = 0 THEN 1 ELSE 2 * Pow2[k - 1]

Pow10Int[k \in Nat] == IF k = 0 THEN 1 ELSE 10 * Pow10Int[k - 1]

\* The exact sum of two numbers.
Plus(a, b) ==
    LET g == Euclid[<<a.d, b.d>>]
    IN  Float(a.n * (b.d \div g) + b.n * (a.d \div g), (a.d \div g) * b.d, FALSE)

Minus(a, b) == Plus(a, Neg(b))

\* a < b
Less(a, b) == a.n * b.d < b.n * a.d

\* |x|
AbsF(x) == [x EXCEPT !.n = Abs(x.n), !.neg = FALSE]

\* n/d > 0 times the power of two that brings it into [2^(Mantissa-1), 2^Mantissa)
Scaled[a \in Nat \X Nat] ==
    IF a[1] >= a[2] * Pow2[Mantissa] THEN Scaled[<<a[1], 2 * a[2]>>]
    ELSE IF a[1] < a[2] * Pow2[Mantissa - 1] THEN Scaled[<<2 * a[1], a[2]>>]
    ELSE a

\* n/d to the nearest integer, ties to even
RoundEven(n, d) ==
    LET q == n \div d
        r == n % d
    IN  IF 2 * r < d THEN q
        ELSE IF 2 * r > d THEN q + 1
        ELSE IF q % 2 = 0 THEN q ELSE q + 1

PowersOfTwo == {Pow2[k] : k \in 0 .. 30}

\* The number x is a float as it stands: a significand of at most Mantissa
\* bits over a power of two.
IsFloat(x) == Abs(x.n) < Pow2[Mantissa] /\ x.d \in PowersOfTwo

\* The float nearest to the number x.
Fl(x) ==
    IF x.n = 0 \/ IsFloat(x) THEN x
    ELSE LET s == Scaled[<<Abs(x.n), x.d>>]
             m == RoundEven(s[1], s[2])
         IN  Float((IF x.n < 0 THEN -m ELSE m) * (s[2] \div x.d),
                   s[1] \div Abs(x.n), FALSE)

FlAdd(a, b) == Fl(Plus(a, b))

FlSub(a, b) == Fl(Minus(a, b))

FlDiv(a, b) == Fl(PyDiv(a, b))

\* Scale with the operands exchanged: epsilon/sensitivity.
ScaleInverted(s, e) == PyDiv(e, s)

\* Line 467, scale=sensitivity/epsilon: the float nearest to the quotient.
Scale(s, e) == FlDiv(s, e)

\* i * a for an integer i
FlTimes(i, a) == Fl(Float(i * a.n, a.d, FALSE))

\* math.ceil
Ceil(x) == -((-x.n) \div x.d)

\* np.log10 of a power of ten n/d, where it is exact.
Log10[x \in Nat \X Nat] ==
    IF x[1] = x[2] THEN 0
    ELSE IF x[1] > x[2] THEN Log10[<<x[1], 10 * x[2]>>] + 1
    ELSE Log10[<<10 * x[1], x[2]>>] - 1

\* The largest r in lo .. hi with r * r <= v.
SqrtSearch[a \in Nat \X Nat \X Nat] ==
    LET mid == (a[2] + a[3] + 1) \div 2
    IN  IF a[2] >= a[3] THEN a[2]
        ELSE IF mid * mid <= a[1] THEN SqrtSearch[<<a[1], mid, a[3]>>]
        ELSE SqrtSearch[<<a[1], a[2], mid - 1>>]

ISqrt(v) == SqrtSearch[<<v, 0, 46340>>]

\* 10**(n/d) for 0 <= n/d < 1 in units of 1/EScale, by the binary digits of
\* n/d: a[3] is 10**(2^-j) for the digit j-1 just read.
PowFrac[a \in Nat \X Nat \X Nat] ==
    IF a[1] = 0 \/ a[3] <= EScale THEN EScale
    ELSE LET r == ISqrt(a[3] * EScale)
         IN  IF 2 * a[1] >= a[2]
             THEN (r * PowFrac[<<2 * a[1] - a[2], a[2], r>>]) \div EScale
             ELSE PowFrac[<<2 * a[1], a[2], r>>]

\* 10**x
Pow10(x) ==
    LET k == x.n \div x.d
        m == PowFrac[<<x.n - k * x.d, x.d, 10 * EScale>>]
    IN  IF k >= 0 THEN Float(m * Pow10Int[k], EScale, FALSE)
        ELSE Float(m, EScale * Pow10Int[-k], FALSE)

\* np.arange(start, stop, step): ceil((stop - start)/step) values; the first
\* two are start and start + step, value i is start + i*delta with
\* delta = (start + step) - start.
Arange(start, stop, step) ==
    LET length == Ceil(FlDiv(FlSub(stop, start), step))
        delta == FlSub(FlAdd(start, step), start)
    IN  [i \in 1 .. Max(0, length) |->
            IF i = 1 THEN start
            ELSE IF i = 2 THEN FlAdd(start, step)
            ELSE FlAdd(start, FlTimes(i - 1, delta))]

\* Line 791: [10**x for x in np.arange(log10(epsmin), log10(epsmax)+step, step)]
\* with step = (log10(epsmax)-log10(epsmin))/epscnt.
EpsSet(lo, hi, cnt) ==
    LET a == Lit(Log10[<<lo.n, lo.d>>], 1)
        b == Lit(Log10[<<hi.n, hi.d>>], 1)
        step == FlDiv(FlSub(b, a), Lit(cnt, 1))
        xs == Arange(a, FlAdd(b, step), step)
    IN  [i \in DOMAIN xs |-> Pow10(xs[i])]

\* pd.Series(s).repeat(n): every value n times, under its index label.
Repeat(s, n) ==
    [tag |-> "series",
     rows |-> [k \in 1 .. Len(s) * n |->
                  [index |-> (k - 1) \div n, value |-> s[((k - 1) \div n) + 1]]]]

\* L1Error without np.abs.
L1ErrorSigned(x) == x

\* Line 806 (and 741): np.abs(noise)
L1Error(x) == AbsF(x)

\* The values a draw of np.random.laplace takes in the model: with a scale
\* > 0 every real is possible, whatever the scale.
DrawValues == {Lit(-1, 2), Lit(2, 1)}

\* np.random.laplace(0, scale, n) and np.random.laplace(loc=0, scale=series)
SeriesDraws(n) == [1 .. n -> DrawValues]

\* The float nearest to the product of two floats, whose denominators are
\* powers of two.
FlMul(a, b) ==
    LET m == Fl(Lit(a.n * b.n, 1)) IN Float(m.n, m.d * a.d * b.d, FALSE)

\* A sum of floats, accumulated value by value in the order of the values.
RECURSIVE SumF(_)
SumF(q) ==
    IF Len(q) = 0 THEN Zero
    ELSE FlAdd(SumF(SubSeq(q, 1, Len(q) - 1)), q[Len(q)])

\* np.mean
Mean(q) == FlDiv(SumF(q), Lit(Len(q), 1))

\* The number whose square is v.
Sqrt(v) == [tag |-> "sqrt", n |-> v.n, d |-> v.d, neg |-> FALSE]

\* Series.std() of a group: the sample standard deviation, nan for one value.
Std(q) ==
    IF Len(q) < 2 THEN NaN
    ELSE LET m == Mean(q)
             sq == [k \in DOMAIN q |->
                       LET t == FlSub(q[k], m) IN FlMul(t, t)]
         IN  Sqrt(FlDiv(SumF(sq), Lit(Len(q) - 1, 1)))

\* The keys of a groupby in ascending order.
RECURSIVE Ascending(_)
Ascending(S) ==
    IF S = {} THEN <<>>
    ELSE LET m == CHOOSE x \in S : \A y \in S : ~Less(y, x)
         IN  <<m>> \o Ascending(S \ {m})

\* Group that stops at the first row with another key: the first run of
\* adjacent rows with the key key.
GroupRun(rows, key, col) ==
    LET first == CHOOSE k \in DOMAIN rows :
                    /\ rows[k].epsilon = key
                    /\ \A j \in 1 .. (k - 1) : rows[j].epsilon # key
        last == CHOOSE k \in first .. Len(rows) :
                    /\ \A j \in first .. k : rows[j].epsilon = key
                    /\ (k + 1 \in DOMAIN rows => rows[k + 1].epsilon # key)
    IN  [k \in 1 .. (last - first + 1) |-> rows[first + k - 1][col]]

\* The values of column col in the rows of rows with the key key.
Group(rows, key, col) ==
    LET g == SelectSeq(rows, LAMBDA r : r.epsilon = key)
    IN  [k \in DOMAIN g |-> g[k][col]]

\* Lines 860-863: df.groupby('epsilon', as_index=False), the mean and the
\* standard deviation of L1error of every group.
Aggregate(rows) ==
    LET keys == Ascending({rows[k].epsilon : k \in DOMAIN rows})
    IN  [i \in DOMAIN keys |->
            [epsilon |-> keys[i],
             L1error |-> Mean(Group(rows, keys[i], "L1error")),
             L1std |-> Std(Group(rows, keys[i], "L1error"))]]

\* The ranges epsmin, epsmax a reader may give the simulation.
EpsRanges == {<<Lit(1, 10), Lit(10, 1)>>, <<Lit(1, 1), Lit(10, 1)>>}

TradeoffLiterals ==
    [range : EpsRanges, epscnt : 1 .. MaxCount, numrecs : 1 .. MaxDraws,
     sensitivity : {Lit(1, 1), Lit(2, 1)}]

\* The literals whose simulation has at most MaxRows rows, with the
\* sensitivity of line 797.
SmallSimulations ==
    {t \in TradeoffLiterals :
        t.sensitivity = Lit(1, 1)
        /\ t.epscnt * t.numrecs <= MaxRows
        /\ Len(EpsSet(t.range[1], t.range[2], t.epscnt)) * t.numrecs <= MaxRows}

\* The kernel of the table notebooks: no name of the tradeoff notebook.
TradeoffNotLoaded ==
    /\ tlit = [range |-> <<Lit(1, 10), Lit(10, 1)>>, epscnt |-> 1, numrecs |-> 1,
               sensitivity |-> Lit(1, 1)]
    /\ epsmin = Zero /\ epsmax = Zero /\ epscnt = 0 /\ epsset = <<>>
    /\ numrecs = 0 /\ meanerror = Zero /\ df = <<>> /\ stats = <<>>

\* The kernel of the tradeoff notebook once its setup cell has run (lines
\* 672-684): no name of the table notebooks.
TablesNotLoaded ==
    /\ lit = [sensitivity |-> Zero, epsilon |-> Zero]
    /\ myrecs = <<>>
    /\ heap = [o \in {"reindex", "add", "astype"} |-> NoFrame]
    /\ truetab = "reindex" /\ noisytab = "add" /\ noisytabpost = "add"
    /\ probability = Zero
    /\ errortab = NoFrame /\ pcterrortab = NoFrame
    /\ errorsum = 0 /\ truesum = 0 /\ errorrel = Zero

InitTradeoff ==
    /\ kind = "Tradeoff"
    /\ tlit \in SmallSimulations
    /\ TablesNotLoaded
    /\ sensitivity = Zero /\ epsilon = Zero /\ scale = Zero /\ noise = <<>>
    /\ epsmin = Zero /\ epsmax = Zero /\ epscnt = 0 /\ epsset = <<>>
    /\ numrecs = 0 /\ meanerror = Zero /\ df = <<>> /\ stats = <<>>
    /\ defined = {}
    /\ error = "none"
    /\ runs = 0

\* In a session of the tradeoff notebook a cell is not executed again once
\* the names it assigns exist; the cells run in any order.

\* Lines 705-709: the cell that defines the scale of the first calculation.
DefineScale ==
    /\ kind = "Tradeoff" /\ runs < MaxRuns /\ runs' = runs + 1
    /\ "scale" \notin defined
    /\ epsilon' = Lit(4, 1)
    /\ sensitivity' = Lit(1, 1)
    /\ scale' = Scale(sensitivity', epsilon')
    /\ numrecs' = tlit.numrecs
    /\ defined' = defined \cup {"epsilon", "sensitivity", "scale", "numrecs"}
    /\ error' = "none"
    /\ UNCHANGED <<kind, pvars, tlit, noise, epsmin, epsmax, epscnt, epsset,
                   meanerror, df, stats>>

\* Lines 736-744: the cell that draws the noise and takes the mean L1 error.
InitialErrorCalculation ==
    /\ kind = "Tradeoff" /\ runs < MaxRuns /\ runs' = runs + 1
    /\ "meanerror" \notin defined
    /\ UNCHANGED <<kind, pvars, tlit, sensitivity, epsilon, scale, numrecs,
                   epsmin, epsmax, epscnt, epsset, df, stats>>
    /\ IF ~({"scale", "numrecs"} \subseteq defined)
       THEN /\ error' = "NameError"
            /\ UNCHANGED <<noise, meanerror, defined>>
       ELSE /\ noise' \in SeriesDraws(numrecs)
            /\ meanerror' = Mean([k \in DOMAIN noise' |-> L1Error(noise'[k])])
            /\ defined' = defined \cup {"noise", "meanerror"}
            /\ error' = "none"

\* Lines 787-806: the cell "Simulations Over Many Values of epsilon".
Simulate ==
    /\ kind = "Tradeoff" /\ runs < MaxRuns /\ runs' = runs + 1
    /\ "df" \notin defined
    /\ epsmin' = tlit.range[1]
    /\ epsmax' = tlit.range[2]
    /\ epscnt' = tlit.epscnt
    /\ epsset' = EpsSet(epsmin', epsmax', epscnt')
    /\ sensitivity' = tlit.sensitivity
    /\ numrecs' = tlit.numrecs
    /\ epsilon' = Repeat(epsset', numrecs')
    /\ LET scales == [k \in DOMAIN epsilon'.rows |->
                          Scale(sensitivity', epsilon'.rows[k].value)]
       IN  \E draws \in SeriesDraws(Len(epsilon'.rows)) :
              df' = [k \in DOMAIN epsilon'.rows |->
                        [index |-> epsilon'.rows[k].index,
                         epsilon |-> epsilon'.rows[k].value,
                         sensitivity |-> sensitivity',
                         scale |-> scales[k],
                         noise |-> draws[k],
                         L1error |-> L1Error(draws[k])]]
    /\ defined' = defined \cup {"epsmin", "epsmax", "epscnt", "epsset",
                                "sensitivity", "numrecs", "epsilon", "df"}
    /\ error' = "none"
    /\ UNCHANGED <<kind, pvars, tlit, scale, noise, meanerror, stats>>

\* Lines 858-863: the statistics of the cell "Visualizing the Results".
Visualize ==
    /\ kind = "Tradeoff" /\ runs < MaxRuns /\ runs' = runs + 1
    /\ "stats" \notin defined
    /\ UNCHANGED <<kind, pvars, tlit, sensitivity, epsilon, scale, numrecs,
                   noise, meanerror, epsmin, epsmax, epscnt, epsset, df>>
    /\ IF "df" \notin defined
       THEN /\ error' = "NameError"
            /\ UNCHANGED <<stats, defined>>
       ELSE /\ stats' = Aggregate(df)
            /\ defined' = defined \cup {"stats"}
            /\ error' = "none"

NextTradeoff ==
    \/ DefineScale
    \/ InitialErrorCalculation
    \/ Simulate
    \/ Visualize

SpecTradeoff == InitTradeoff /\ [][NextTradeoff]_vars

\* The epsilon grid alone, for every literal of the model.
InitGrid ==
    /\ kind = "Tradeoff"
    /\ tlit \in TradeoffLiterals
    /\ TablesNotLoaded
    /\ sensitivity = Zero /\ epsilon = Zero /\ scale = Zero /\ noise = <<>>
    /\ epsmin = Zero /\ epsmax = Zero /\ epscnt = 0 /\ epsset = <<>>
    /\ numrecs = 0 /\ meanerror = Zero /\ df = <<>> /\ stats = <<>>
    /\ defined = {}
    /\ error = "none"
    /\ runs = 0

\* Lines 788-791: the first statements of the simulation cell.
DefineEpsSet ==
    /\ kind = "Tradeoff" /\ runs < MaxRuns /\ runs' = runs + 1
    /\ "epsset" \notin defined
    /\ epsmin' = tlit.range[1]
    /\ epsmax' = tlit.range[2]
    /\ epscnt' = tlit.epscnt
    /\ epsset' = EpsSet(epsmin', epsmax', epscnt')
    /\ defined' = defined \cup {"epsmin", "epsmax", "epscnt", "epsset"}
    /\ error' = "none"
    /\ UNCHANGED <<kind, pvars, tlit, sensitivity, epsilon, scale, numrecs,
                   noise, meanerror, df, stats>>

NextGrid == DefineEpsSet

SpecGrid == InitGrid /\ [][NextGrid]_vars

\* ------------------------------------------------------------- calibration
\* The floats from 2 downwards: 2 and the MaxRows floats below it.
NearTwo == {Float(Pow2[Mantissa] - k, Pow2[Mantissa - 1], FALSE) : k \in 0 .. MaxRows}

\* The grids of the small simulations (line 791).
SweepGrids == {EpsSet(r[1], r[2], c) : r \in EpsRanges, c \in 1 .. MaxDraws}

\* The values a reader may give the literal epsilon of a calibration: those
\* of the source (lines 145, 466, 706), the points of the grids and the
\* floats next to 2.
CalibrationEpsilons ==
    {Lit(1, 1), Lit(1, 2), Lit(4, 1)} \cup NearTwo
        \cup UNION {Range(g) : g \in SweepGrids}

CalibrationSensitivities == {Lit(1, 1), Lit(2, 1)}

InitScale ==
    /\ kind = "Tradeoff"
    /\ TablesNotLoaded
    /\ TradeoffNotLoaded
    /\ sensitivity = Zero /\ epsilon = Zero /\ scale = Zero /\ noise = <<>>
    /\ defined = {}
    /\ error = "none"
    /\ runs = 0

\* Lines 705-709 with the literals a reader gives: the cell can be run again
\* with other literals.
Calibrate ==
    /\ kind = "Tradeoff" /\ runs < MaxRuns /\ runs' = runs + 1
    /\ \E e \in CalibrationEpsilons, s \in CalibrationSensitivities :
          /\ epsilon' = e
          /\ sensitivity' = s
          /\ scale' = Scale(s, e)
    /\ numrecs' = tlit.numrecs
    /\ defined' = defined \cup {"epsilon", "sensitivity", "scale", "numrecs"}
    /\ error' = "none"
    /\ UNCHANGED <<kind, pvars, tlit, noise, epsmin, epsmax, epscnt, epsset,
                   meanerror, df, stats>>

NextScale == Calibrate

SpecScale == InitScale /\ [][NextScale]_vars

\* ------------------------------------------------------------------- order
\* The simulations of two grid points with MaxDraws + 1 draws each.
OrderSimulations ==
    [range : EpsRanges, epscnt : {1}, numrecs : {MaxDraws + 1},
     sensitivity : {Lit(1, 1)}]

\* The draws of these simulations: 1, whose |noise| is a float with room
\* below it, and minus half the distance from 1 to the next float.
OrderDrawValues == {Lit(1, 1), Lit(-1, Pow2[Mantissa])}

\* The rows of line 802 to 806 that a grid and a sensitivity admit.
UnitValues(grid, s) ==
    {[index |-> i - 1, epsilon |-> grid[i], sensitivity |-> s,
      scale |-> Scale(s, grid[i]), noise |-> v, L1error |-> L1Error(v)] :
        i \in DOMAIN grid, v \in OrderDrawValues}

\* The rows of a simulation in every order in which its units can be
\* produced: n rows for each grid point.
Interleavings(grid, s, n) ==
    {f \in [1 .. Len(grid) * n -> UnitValues(grid, s)] :
        \A i \in DOMAIN grid :
            Cardinality({k \in DOMAIN f : f[k].index = i - 1}) = n}

\* The state once the simulation cell has run (lines 787-806), its rows
\* produced in any order.
InitOrder ==
    /\ kind = "Tradeoff"
    /\ tlit \in OrderSimulations
    /\ TablesNotLoaded
    /\ epsmin = tlit.range[1] /\ epsmax = tlit.range[2] /\ epscnt = tlit.epscnt
    /\ epsset = EpsSet(epsmin, epsmax, epscnt)
    /\ sensitivity = tlit.sensitivity
    /\ numrecs = tlit.numrecs
    /\ epsilon = Repeat(epsset, numrecs)
    /\ df \in Interleavings(epsset, sensitivity, numrecs)
    /\ scale = Zero /\ noise = <<>> /\ meanerror = Zero /\ stats = <<>>
    /\ defined = {"epsmin", "epsmax", "epscnt", "epsset", "sensitivity",
                  "numrecs", "epsilon", "df"}
    /\ error = "none"
    /\ runs = 1

NextOrder == Visualize

SpecOrder == InitOrder /\ [][NextOrder]_vars

\* ---------------------------------------------------------------- notebook
\* The values a reader may give the two literals of the noise cell.
SensitivityLiterals == {Lit(-1, 1), Lit(0, 1), Lit(1, 1)}
EpsilonLiterals == {Lit(-1, 1), Lit(0, 1), Lit(1, 2), Lit(1, 1)}

\* The objects: the reindexed crosstab, the sum truetab+noise, the rounded copy.
Objects == {"reindex", "add", "astype"}

\* AddSite of an in-place sum, truetab += noise: the object of truetab.
AddSiteInPlace == "reindex"

\* truetab+noise builds a new DataFrame (lines 227, 526).
AddSite == "add"

\* noisytab.round().astype(np.int) builds a new DataFrame (line 531).
RoundSite == "astype"

\* The state once the data cells have run (lines 82-111, 374-431).
Init ==
    /\ kind \in {"Laplace", "Geometric"}
    /\ lit \in [sensitivity : SensitivityLiterals, epsilon : EpsilonLiterals]
    /\ myrecs \in Populations
    /\ heap = [o \in Objects |->
                 IF o = "reindex" THEN Reindex(Crosstab(myrecs), occvalid, sexvalid)
                 ELSE NoFrame]
    /\ truetab = "reindex"
    /\ sensitivity = Zero /\ epsilon = Zero /\ scale = Zero /\ probability = Zero
    /\ noise = NoArray
    /\ noisytab = "add" /\ noisytabpost = "add"
    /\ errortab = NoFrame /\ pcterrortab = NoFrame
    /\ errorsum = 0 /\ truesum = 0 /\ errorrel = Zero
    /\ defined = {"myrecs", "truetab"}
    /\ error = "none"
    /\ runs = 0
    /\ TradeoffNotLoaded

Ran == runs' = runs + 1

\* Lines 464-476: the cell "Generate Laplace Noise".
GenerateLaplaceNoise ==
    /\ kind = "Laplace" /\ runs < MaxRuns /\ Ran
    /\ sensitivity' = lit.sensitivity
    /\ epsilon' = lit.epsilon
    /\ UNCHANGED <<tvars, kind, lit, myrecs, heap, truetab, probability, noisytab,
                   noisytabpost, errvars>>
    /\ IF lit.epsilon.n = 0
       THEN \* float division by zero at line 467
            /\ error' = "ZeroDivisionError"
            /\ defined' = defined \cup {"sensitivity", "epsilon"}
            /\ UNCHANGED <<scale, noise>>
       ELSE /\ scale' = Scale(lit.sensitivity, lit.epsilon)
            /\ IF SignBit(scale')
               THEN \* np.random.laplace rejects a negative scale
                    /\ error' = "ValueError: scale < 0"
                    /\ defined' = defined \cup {"sensitivity", "epsilon", "scale"}
                    /\ UNCHANGED noise
               ELSE /\ noise' \in LaplaceDraws(scale', NoiseShape(heap[truetab]))
                    /\ error' = "none"
                    /\ defined' = defined \cup
                           {"sensitivity", "epsilon", "scale", "noise"}

\* Lines 525-538: the cell "Create Noisy Table" of the Laplace notebook.
CreateNoisyTable ==
    /\ kind = "Laplace" /\ runs < MaxRuns /\ Ran
    /\ UNCHANGED <<tvars, kind, lit, myrecs, truetab, sensitivity, epsilon, scale,
                   probability, noise, errvars>>
    /\ IF "noise" \notin defined
       THEN /\ error' = "NameError"
            /\ UNCHANGED <<heap, noisytab, noisytabpost, defined>>
       ELSE IF ~CanAdd(heap[truetab], noise)
       THEN /\ error' = "ValueError: shape"
            /\ UNCHANGED <<heap, noisytab, noisytabpost, defined>>
       ELSE LET h1 == [heap EXCEPT ![AddSite] = Add(heap[truetab], noise)]
                h2 == [h1 EXCEPT ![RoundSite] = RoundAsInt(h1[AddSite])]
            IN  /\ noisytab' = AddSite
                /\ noisytabpost' = RoundSite
                /\ heap' = [h2 EXCEPT ![RoundSite] = Clamp(h2[RoundSite])]
                /\ defined' = defined \cup {"noisytab", "noisytabpost"}
                /\ error' = "none"

ErrorNames == {"errortab", "pcterrortab", "errorsum", "truesum", "errorrel"}

\* Lines 582-599: the cell "Measure the Error" of the Laplace notebook.
MeasureError ==
    /\ kind = "Laplace" /\ runs < MaxRuns /\ Ran
    /\ UNCHANGED <<tvars, kind, lit, myrecs, heap, truetab, sensitivity, epsilon,
                   scale, probability, noise, noisytab, noisytabpost>>
    /\ IF "noisytabpost" \notin defined
       THEN /\ error' = "NameError"
            /\ UNCHANGED <<errvars, defined>>
       ELSE /\ errortab' = AbsDiff(heap[noisytabpost], heap[truetab])
            /\ pcterrortab' = FrameDiv(errortab', heap[truetab])
            /\ errorsum' = SumSum(errortab')
            /\ truesum' = SumSum(heap[truetab])
            /\ errorrel' = NpDiv(100 * errorsum', truesum')
            /\ defined' = defined \cup ErrorNames
            /\ error' = "none"

\* Lines 143-155: the cell "Generate Geometric Noise".
GenerateGeometricNoise ==
    /\ kind = "Geometric" /\ runs < MaxRuns /\ Ran
    /\ sensitivity' = lit.sensitivity
    /\ epsilon' = lit.epsilon
    /\ UNCHANGED <<tvars, kind, lit, myrecs, heap, truetab, scale, noisytab,
                   noisytabpost, errvars>>
    /\ IF lit.sensitivity.n = 0
       THEN \* float division by zero at line 146
            /\ error' = "ZeroDivisionError"
            /\ defined' = defined \cup {"sensitivity", "epsilon"}
            /\ UNCHANGED <<probability, noise>>
       ELSE /\ probability' = Probability(lit.sensitivity, lit.epsilon)
            /\ \/ \* np.random.geometric rejects p < 0, and newer releases p = 0
                  /\ SignBit(probability') \/ probability'.n = 0
                  /\ error' = "ValueError: p"
                  /\ defined' = defined \cup {"sensitivity", "epsilon", "probability"}
                  /\ UNCHANGED noise
               \/ \* older releases take p = 0: both draws are the same
                  \* out-of-range integer and their difference is 0
                  /\ probability'.n = 0
                  /\ noise' = Array(NoiseShape(heap[truetab]), "int",
                                    [p \in Pos(NoiseShape(heap[truetab])) |-> 0])
                  /\ error' = "none"
                  /\ defined' = defined \cup
                         {"sensitivity", "epsilon", "probability", "noise"}
               \/ /\ probability'.n > 0
                  /\ \E a, b \in GeometricDraws(probability', NoiseShape(heap[truetab])) :
                        noise' = ArraySub(a, b)
                  /\ error' = "none"
                  /\ defined' = defined \cup
                         {"sensitivity", "epsilon", "probability", "noise"}

\* Lines 226-260: the cell "Create the Noisy Table and Measure the Error".
CreateNoisyTableAndMeasure ==
    /\ kind = "Geometric" /\ runs < MaxRuns /\ Ran
    /\ UNCHANGED <<tvars, kind, lit, myrecs, truetab, sensitivity, epsilon, scale,
                   probability, noise>>
    /\ IF "noise" \notin defined
       THEN /\ error' = "NameError"
            /\ UNCHANGED <<heap, noisytab, noisytabpost, errvars, defined>>
       ELSE IF ~CanAdd(heap[truetab], noise)
       THEN /\ error' = "ValueError: shape"
            /\ UNCHANGED <<heap, noisytab, noisytabpost, errvars, defined>>
       ELSE LET h1 == [heap EXCEPT ![AddSite] = Add(heap[truetab], noise)]
            IN  /\ noisytab' = AddSite
                /\ noisytabpost' = noisytab'
                /\ heap' = [h1 EXCEPT ![noisytabpost'] = Clamp(h1[noisytabpost'])]
                /\ errortab' = AbsDiff(heap'[noisytabpost'], heap'[truetab])
                /\ pcterrortab' = FrameDiv(errortab', heap'[truetab])
                /\ errorsum' = SumSum(errortab')
                /\ truesum' = SumSum(heap'[truetab])
                /\ errorrel' = NpDiv(100 * errorsum', truesum')
                /\ defined' = defined \cup {"noisytab", "noisytabpost"} \cup ErrorNames
                /\ error' = "none"

Next ==
    \/ GenerateLaplaceNoise
    \/ CreateNoisyTable
    \/ MeasureError
    \/ GenerateGeometricNoise
    \/ CreateNoisyTableAndMeasure

Spec == Init /\ [][Next]_vars

\* ------------------------------------------------- the notebook's own run
\* The Geometric notebook as it was run: the five occupations of line 88, the
\* 100 records behind the printed true table (lines 198-204), and a noise
\* array already drawn by the noise cell.
OccupationsOfRun ==
    <<"Statistician", "Economist", "Geographer", "IT Specialist", "Unicorn Wrangler">>

CountsOfRun == <<<<18, 19>>, <<13, 16>>, <<10, 10>>, <<8, 5>>, <<0, 1>>>>

NoiseOfScenario == <<<<0, -1>>, <<-3, 1>>, <<-1, -2>>, <<3, -3>>, <<0, 0>>>>

\* The cells of a matrix given row by row.
Matrix(rows) ==
    [p \in Pos(<<Len(rows), Len(rows[1])>>) |-> rows[p[1]][p[2]]]

\* n copies of the record of one occupation and sex.
Records(occ, sex, n) == [k \in 1 .. n |-> [Occupation |-> occ, Sex |-> sex]]

RECURSIVE RecordsOfRows(_, _, _)
RecordsOfRows(index, counts, i) ==
    IF i > Len(index) THEN <<>>
    ELSE Records(index[i], sexvalid[1], counts[i][1])
            \o Records(index[i], sexvalid[2], counts[i][2])
            \o RecordsOfRows(index, counts, i + 1)

RecordsOfRun == RecordsOfRows(OccupationsOfRun, CountsOfRun, 1)

\* The draws considered: every cell is the scenario's value or its opposite.
NoisesOfScenario ==
    {Array(<<Len(NoiseOfScenario), Len(sexvalid)>>, "int",
           [p \in DOMAIN Matrix(NoiseOfScenario) |->
               sign[p] * Matrix(NoiseOfScenario)[p]]) :
        sign \in [DOMAIN Matrix(NoiseOfScenario) -> {1, -1}]}

\* The state once the data cell and the noise cell have run (lines 82-155).
InitOfRun ==
    /\ kind = "Geometric"
    /\ lit = [sensitivity |-> Lit(1, 1), epsilon |-> Lit(1, 1)]
    /\ myrecs = RecordsOfRun
    /\ heap = [o \in Objects |->
                 IF o = "reindex"
                 THEN Reindex(Crosstab(myrecs), OccupationsOfRun, sexvalid)
                 ELSE NoFrame]
    /\ truetab = "reindex"
    /\ sensitivity = lit.sensitivity /\ epsilon = lit.epsilon /\ scale = Zero
    /\ probability = Probability(lit.sensitivity, lit.epsilon)
    /\ noise \in NoisesOfScenario
    /\ noisytab = "add" /\ noisytabpost = "add"
    /\ errortab = NoFrame /\ pcterrortab = NoFrame
    /\ errorsum = 0 /\ truesum = 0 /\ errorrel = Zero
    /\ defined = {"myrecs", "truetab", "sensitivity", "epsilon", "probability", "noise"}
    /\ error = "none"
    /\ runs = 1
    /\ TradeoffNotLoaded

NextOfRun == CreateNoisyTableAndMeasure

SpecOfRun == InitOfRun /\ [][NextOfRun]_vars

\* ---------------------------------------------------------------- data cell
\* Every population of at most MaxRecs records over the five occupations of
\* line 88 and the two sexes of line 86: np.random.choice (lines 91, 95)
\* gives every label a probability above 0.
PopulationsOfRun ==
    UNION {[1 .. n -> [Occupation : Range(OccupationsOfRun), Sex : Range(sexvalid)]] :
           n \in 0 .. MaxRecs}

\* The kernel of a table notebook before its data cells have run; the
\* literals of the noise cell are those of the source (lines 144-145, 465-466).
InitData ==
    /\ kind \in {"Laplace", "Geometric"}
    /\ lit = [sensitivity |-> Lit(1, 1),
              epsilon |-> IF kind = "Laplace" THEN Lit(1, 2) ELSE Lit(1, 1)]
    /\ myrecs = <<>>
    /\ heap = [o \in Objects |-> NoFrame]
    /\ truetab = "reindex"
    /\ sensitivity = Zero /\ epsilon = Zero /\ scale = Zero /\ probability = Zero
    /\ noise = NoArray
    /\ noisytab = "add" /\ noisytabpost = "add"
    /\ errortab = NoFrame /\ pcterrortab = NoFrame
    /\ errorsum = 0 /\ truesum = 0 /\ errorrel = Zero
    /\ defined = {}
    /\ error = "none"
    /\ runs = 0
    /\ TradeoffNotLoaded

\* Lines 82-111, 374-431: the data cells draw a population and tabulate it,
\* once in a session.
CreateTrueTable ==
    /\ runs < MaxRuns /\ runs' = runs + 1
    /\ "truetab" \notin defined
    /\ \E recs \in PopulationsOfRun :
          /\ myrecs' = recs
          /\ heap' = [heap EXCEPT !["reindex"] =
                         Reindex(Crosstab(recs), OccupationsOfRun, sexvalid)]
    /\ truetab' = "reindex"
    /\ defined' = defined \cup {"myrecs", "truetab"}
    /\ error' = "none"
    /\ UNCHANGED <<tvars, kind, lit, sensitivity, epsilon, scale, probability,
                   noise, noisytab, noisytabpost, errvars>>

NextData == CreateTrueTable

SpecData == InitData /\ [][NextData]_vars

\* ----------------------------------------------------------------- claims
Mul(a, b) == Float(a.n * b.n, a.d * b.d, FALSE)

Positive(x) == x.tag = "num" /\ x.n > 0

Cells(frame) == DOMAIN frame.cells

Has(name) == name \in defined

C2_PublishedNonNegative ==
    Has("noisytabpost") =>
        \A p \in Cells(heap[noisytabpost]) : heap[noisytabpost].cells[p] >= 0

\* A raw Laplace cell of -1.0 or less, kept in noisytab, is published as 0.
C2_Witness ==
    /\ kind = "Laplace" /\ Has("noisytabpost")
    /\ \E p \in Cells(heap[noisytabpost]) :
          /\ heap[noisytab].cells[p] <= -Den
          /\ heap[noisytabpost].cells[p] = 0

\* The literals of the noise cell are a valid calibration.
ValidLiterals == Positive(lit.sensitivity) /\ Positive(lit.epsilon)

\* C3: with valid parameters, a step that builds and post-processes the noisy
\* table leaves the raw table, the object named noisytab, equal to
\* true table + noise cell by cell.
C3_RawTableRetained ==
    [][(ValidLiterals /\ error' = "none"
            /\ (CreateNoisyTable \/ CreateNoisyTableAndMeasure))
          => heap'[noisytab'] = Add(heap'[truetab'], noise')]_vars

\* C4: once the noise cell has run with sensitivity <= 0 or epsilon <= 0,
\* no noise table exists.
C4_InvalidParametersFail ==
    (Has("sensitivity") /\ (~Positive(sensitivity) \/ ~Positive(epsilon)))
        => ~Has("noise")

\* C5: every cell of the relative error table is absoluteError/true when
\* true > 0, the infinity sentinel when true = 0 and absoluteError > 0, and 0
\* when true = 0 and absoluteError = 0 (stated for valid parameters).
C5_RelativeErrorPolicy ==
    (ValidLiterals /\ Has("pcterrortab")) =>
        \A p \in Cells(pcterrortab) :
            LET t == heap[truetab].cells[p]
                a == errortab.cells[p]
            IN  /\ t > 0 => pcterrortab.cells[p] = Lit(a, t)
                /\ (t = 0 /\ a > 0) => pcterrortab.cells[p] = Inf
                /\ (t = 0 /\ a = 0) => pcterrortab.cells[p] = Zero

\* The values one cell of a draw ranges over within the bounds.
NoiseCellValues ==
    IF kind = "Laplace" THEN -MaxNoise .. MaxNoise ELSE (1 - MaxGeo) .. (MaxGeo - 1)

\* C6: whatever the true counts, when the noise cell can run with a positive
\* calibrated parameter (here: before a noisy table is built), every cell of
\* the table can receive every noise value: the draw depends on the shape of
\* the true table only.
C6_NoiseIgnoresTrueCounts ==
    (runs < MaxRuns /\ ~Has("noisytab") /\ lit.sensitivity.n * lit.epsilon.n > 0) =>
        \A p \in Cells(heap[truetab]) : \A v \in NoiseCellValues :
            ENABLED ((GenerateLaplaceNoise \/ GenerateGeometricNoise)
                        /\ noise'.cells[p] = v)

\* A true zero next to a non-zero count, both noised away from their counts.
C6_Witness ==
    /\ Has("noisytab")
    /\ \E p, q \in Cells(heap[truetab]) :
          /\ heap[truetab].cells[p] = 0 /\ heap[truetab].cells[q] > 0
          /\ noise.cells[p] # 0 /\ noise.cells[q] # 0

SameLabels(a, b) ==
    a.index = b.index /\ a.columns = b.columns /\ Cells(a) = Cells(b)

\* C7: the noise array has the shape of the true table; the raw noisy table,
\* the published table and the two error tables carry the labels of the true
\* table; no cell ever raises a shape mismatch.
C7_ShapePreserved ==
    /\ Has("noise") => /\ noise.shape = Shape(heap[truetab])
                       /\ DOMAIN noise.cells = Cells(heap[truetab])
    /\ Has("noisytab") => SameLabels(heap[noisytab], heap[truetab])
    /\ Has("noisytabpost") => SameLabels(heap[noisytabpost], heap[truetab])
    /\ Has("errortab") => SameLabels(errortab, heap[truetab])
    /\ Has("pcterrortab") => SameLabels(pcterrortab, heap[truetab])
    /\ error # "ValueError: shape"

C7_Witness ==
    /\ Has("pcterrortab") /\ error = "none"
    /\ Shape(heap[truetab]) = <<Len(occvalid), Len(sexvalid)>>
    /\ Shape(heap[noisytabpost]) = <<Len(occvalid), Len(sexvalid)>>
    /\ \E p \in Cells(errortab) : errortab.cells[p] > 0

\* C8: no step changes the true table: the name truetab keeps its object and
\* the object keeps every cell.
C8_TrueTableNotMutated ==
    [][truetab' = truetab /\ heap'[truetab'] = heap[truetab]]_vars

\* Noising, post-processing and error measurement have all run, one of them
\* again, and a negative raw cell was clamped.
C8_Witness ==
    /\ kind = "Laplace" /\ Has("errortab") /\ runs = MaxRuns /\ error = "none"
    /\ \E p \in Cells(heap[noisytab]) : heap[noisytab].cells[p] <= -Den

\* C9: applying the post-processing policy of the notebook to its published
\* table returns the published table.
C9_PostProcessingIdempotent ==
    Has("noisytabpost") =>
        LET pub == heap[noisytabpost]
        IN  IF kind = "Laplace" THEN Clamp(RoundAsInt(pub)) = pub
            ELSE Clamp(pub) = pub

\* The published table differs from the raw one by a rounded tie and a clamp.
C9_Witness ==
    /\ kind = "Laplace" /\ Has("noisytabpost")
    /\ \E p, q \in Cells(heap[noisytab]) :
          /\ heap[noisytab].cells[p] <= -Den
          /\ heap[noisytab].cells[q] % Den # 0

RECURSIVE SeqSum(_)
SeqSum(q) == IF q = <<>> THEN 0 ELSE Head(q) + SeqSum(Tail(q))

\* The sum of a table, column after column.
ColumnSums(frame) ==
    [j \in 1 .. Len(frame.columns) |->
        SeqSum([i \in 1 .. Len(frame.index) |-> frame.cells[<<i, j>>]])]

\* C10: a step that measures the error leaves in every cell of errortab the
\* distance |published - true|, which is >= 0, and in errorsum the sum of the
\* cells of errortab.
C10_AbsoluteErrorAndTotal ==
    [][(MeasureError \/ CreateNoisyTableAndMeasure) /\ error' = "none"
          => /\ \A p \in Cells(heap'[truetab']) :
                   LET pub == heap'[noisytabpost'].cells[p]
                       tru == heap'[truetab'].cells[p]
                   IN  /\ errortab'.cells[p] = IF pub >= tru THEN pub - tru ELSE tru - pub
                       /\ errortab'.cells[p] >= 0
             /\ errorsum' = SeqSum(ColumnSums(errortab'))]_vars

\* An error report with a cell published above and a cell published below
\* its true count.
C10_Witness ==
    /\ Has("errortab") /\ errorsum = SeqSum(ColumnSums(errortab)) /\ errorsum >= 2
    /\ \E p, q \in Cells(errortab) :
          /\ heap[noisytabpost].cells[p] > heap[truetab].cells[p]
          /\ heap[noisytabpost].cells[q] < heap[truetab].cells[q]
          /\ errortab.cells[p] > 0 /\ errortab.cells[q] > 0

\* C11: once the error is measured, truesum is the sum of all cells of the
\* true table, which is the number of records, and with truesum > 0 the
\* relative L1 error is the number errorrel with
\* errorrel * truesum = 100 * errorsum.
C11_RelativeL1 ==
    Has("errorrel") =>
        /\ truesum = SeqSum(ColumnSums(heap[truetab]))
        /\ truesum = Len(myrecs)
        /\ truesum > 0 =>
              /\ errorrel.tag = "num"
              /\ errorrel.n * truesum = 100 * errorsum * errorrel.d

\* A relative error that is not a whole percentage of a one-record table:
\* two records, total error 1, relative error 50.
C11_Witness ==
    /\ Has("errorrel") /\ error = "none"
    /\ Len(myrecs) = 2 /\ errorsum = 1 /\ errorrel = Lit(50, 1)

\* C17: in the Geometric notebook the noise is an integer array, the raw noisy
\* table and the published table are integer tables (no rounding step), and
\* when the noise cell can run with valid literals a cell can receive -1, 0
\* and 1, and the value k exactly when it can receive -k.
C17_GeometricNoiseTwoSidedInteger ==
    kind = "Geometric" =>
        /\ Has("noise") =>
              /\ noise.dtype = "int"
              /\ \A p \in DOMAIN noise.cells : noise.cells[p] \in Int
        /\ Has("noisytab") =>
              /\ heap[noisytab].dtype = "int"
              /\ heap[noisytabpost].dtype = "int"
        /\ (runs < MaxRuns /\ ~Has("noisytab") /\ ValidLiterals) =>
              \A p \in Cells(heap[truetab]) :
                  /\ \A k \in {-1, 0, 1} :
                        ENABLED (GenerateGeometricNoise /\ noise'.cells[p] = k)
                  /\ \A k \in 0 .. MaxGeo :
                        (ENABLED (GenerateGeometricNoise /\ noise'.cells[p] = k))
                          <=> (ENABLED (GenerateGeometricNoise /\ noise'.cells[p] = -k))

\* A draw with a negative and a positive cell, added to the counts unrounded.
C17_Witness ==
    /\ kind = "Geometric" /\ Has("noisytab") /\ error = "none"
    /\ \E p, q \in DOMAIN noise.cells : noise.cells[p] < 0 /\ noise.cells[q] > 0
    /\ heap[noisytab].dtype = "int"

\* x as a multiple of 1/PScale (the denominator of x divides PScale).
Units(x) == x.n * (PScale \div x.d)

\* C18: in the Geometric notebook, with sensitivity > 0 and epsilon > 0 and
\* x = epsilon/sensitivity, the probability is 1 - exp(-x): it satisfies
\* 0 < probability <= 1 and x - x^2/2 < probability < x, which hold of
\* 1 - exp(-x) alone up to the precision of exp; sensitivity 1.0 and
\* epsilon 1.0 give 0.6321 within 1e-4.
C18_GeometricCalibration ==
    (kind = "Geometric" /\ Has("probability")
        /\ Positive(sensitivity) /\ Positive(epsilon)) =>
        LET x == PyDiv(epsilon, sensitivity)
            u == Units(probability)
            xu == (PScale * x.n) \div x.d
            x2u == (PScale * x.n * x.n) \div (2 * x.d * x.d)
        IN  /\ probability = OneMinus(Exp(Neg(x)))
            /\ Positive(probability) /\ probability.n <= probability.d
            /\ xu - x2u - 1 <= u /\ u <= xu
            /\ (sensitivity = Lit(1, 1) /\ epsilon = Lit(1, 1)) =>
                  Abs(u - 6321 * (PScale \div 10000)) <= PScale \div 10000

C18_Witness ==
    /\ kind = "Geometric" /\ Has("noise") /\ error = "none"
    /\ sensitivity = Lit(1, 1) /\ epsilon = Lit(1, 1)
    /\ Units(probability) \div (PScale \div 10000) = 6321

\* The post-processing policy of the notebook applied to a raw table.
PostProcess(raw) == IF kind = "Laplace" THEN Clamp(RoundAsInt(raw)) ELSE Clamp(raw)

\* C20: with valid parameters, in every state the error report, once it
\* exists, is the one of the current published table, and the published
\* table, once it exists, is the post-processed true table + current noise.
C20_ErrorReportCurrent ==
    ValidLiterals =>
        /\ Has("errortab") =>
              /\ errortab = AbsDiff(heap[noisytabpost], heap[truetab])
              /\ pcterrortab = FrameDiv(errortab, heap[truetab])
              /\ errorsum = SumSum(errortab)
              /\ truesum = SumSum(heap[truetab])
              /\ errorrel = NpDiv(100 * errorsum, truesum)
        /\ Has("noisytabpost") =>
              heap[noisytabpost] = PostProcess(Add(heap[truetab], noise))

\* C12: with the true table [[18,19],[13,16],[10,10],[8,5],[0,1]] and the
\* noise [[0,-1],[-3,1],[-1,-2],[3,-3],[0,0]], after the Geometric cell the
\* published table is [[18,18],[10,17],[9,8],[11,2],[0,1]] and the total L1
\* error is 14, the sum of |noise| over the cells.
C12_ScenarioOne ==
    (noise.cells = Matrix(NoiseOfScenario) /\ Has("errorsum")) =>
        /\ heap[truetab].cells = Matrix(CountsOfRun)
        /\ heap[noisytabpost].cells =
              Matrix(<<<<18, 18>>, <<10, 17>>, <<9, 8>>, <<11, 2>>, <<0, 1>>>>)
        /\ errorsum = 14
        /\ errorsum = SumOver([p \in DOMAIN noise.cells |-> Abs(noise.cells[p])],
                              DOMAIN noise.cells)

C12_Witness ==
    /\ noise.cells = Matrix(NoiseOfScenario) /\ Has("errorsum") /\ error = "none"
    /\ errorsum = 14 /\ truesum = 100
    /\ heap[noisytabpost].cells[<<2, 1>>] = 10

\* x in thousandths, rounded down.
Milli(x) == (x.n * 1000) \div x.d

\* a is b within the tolerance of the grid's floats: two percent.
Close(a, b) == Abs(Milli(a) - Milli(b)) * 50 <= Milli(b) + 50

\* 10^(log10(epsmin) + i*(log10(epsmax)-log10(epsmin))/epscnt) in exact
\* arithmetic of the exponent.
GridPoint(i) ==
    LET lo == Log10[<<epsmin.n, epsmin.d>>]
        hi == Log10[<<epsmax.n, epsmax.d>>]
    IN  Pow10(Lit(lo * epscnt + i * (hi - lo), epscnt))

\* C13: once the grid is defined it has exactly epscnt+1 points, point i is
\* 10^(log10(epsmin) + i*(log10(epsmax)-log10(epsmin))/epscnt) for
\* i = 0..epscnt, the first point is epsmin and the last is epsmax (values
\* within the tolerance of the floats); 0.1, 10 and 20 give 21 points.
C13_EpsilonGrid ==
    Has("epsset") =>
        /\ Len(epsset) = epscnt + 1
        /\ \A i \in 0 .. epscnt :
              i + 1 \in DOMAIN epsset => Close(epsset[i + 1], GridPoint(i))
        /\ epsset[1] = epsmin
        /\ Close(epsset[Len(epsset)], epsmax)
        /\ (epsmin = Lit(1, 10) /\ epsmax = Lit(10, 1) /\ epscnt = 20)
              => Len(epsset) = 21

\* The rows of df drawn for grid point i (from 1).
RowsOf(i) == {k \in DOMAIN df : (k - 1) \div numrecs = i - 1}

\* C14: once the simulation has run, every grid epsilon has exactly numrecs
\* rows, the data structure has (epscnt+1)*numrecs rows, and every row
\* carries the epsilon of its grid point, the scale sensitivity/epsilon of
\* that epsilon, and L1error = |noise| >= 0.
C14_SweepRows ==
    Has("df") =>
        /\ Len(df) = (epscnt + 1) * numrecs
        /\ \A i \in DOMAIN epsset :
              /\ Cardinality(RowsOf(i)) = numrecs
              /\ \A k \in RowsOf(i) :
                    df[k].epsilon = epsset[i] /\ df[k].index = i - 1
        /\ \A k \in DOMAIN df :
              /\ df[k].scale = FlDiv(df[k].sensitivity, df[k].epsilon)
              /\ df[k].L1error = (IF df[k].noise.n < 0 THEN Neg(df[k].noise)
                                  ELSE df[k].noise)
              /\ df[k].L1error.n >= 0

\* The L1error of the rows of grid point i, in the order of the rows.
ErrorsOf(i) == [j \in 1 .. numrecs |-> df[(i - 1) * numrecs + j].L1error]

\* C15: once the statistics exist there is exactly one triple for each of
\* the epscnt+1 grid points, in strictly ascending order of epsilon, with
\* the mean and the standard deviation of the L1error of the rows drawn for
\* that grid point.
C15_SweepOutput ==
    Has("stats") =>
        /\ Len(stats) = epscnt + 1
        /\ Len(stats) = Len(epsset)
        /\ \A i \in DOMAIN stats :
              /\ i > 1 => Less(stats[i - 1].epsilon, stats[i].epsilon)
              /\ i \in DOMAIN epsset =>
                    /\ stats[i].epsilon = epsset[i]
                    /\ stats[i].L1error = Mean(ErrorsOf(i))
                    /\ stats[i].L1std = Std(ErrorsOf(i))

\* The true values of a query.
TrueValues == {Lit(n, 1) : n \in 0 .. MaxRecs} \cup {Lit(37, 2)}

\* C16: in the tradeoff notebook the L1 error of every draw is |noise|, and
\* |n - (n + noise)| is the same number for every true value n; the mean
\* error of the first calculation is the mean of |noise|.
C16_ErrorIsAbsNoise ==
    /\ Has("df") =>
          \A r \in {<<df[k].noise, df[k].L1error>> : k \in DOMAIN df} :
              /\ r[2].n >= 0
              /\ r[2] \in {r[1], Neg(r[1])}
              /\ \A n \in TrueValues :
                    AbsF(Minus(n, Plus(n, r[1]))) = r[2]
    /\ Has("meanerror") =>
          \A n \in TrueValues :
              meanerror = Mean([k \in DOMAIN noise |->
                                  AbsF(Minus(n, Plus(n, noise[k])))])

C16_Witness ==
    /\ Has("df") /\ Has("meanerror")
    /\ \E j, k \in DOMAIN df :
          /\ df[j].noise.n < 0 /\ df[j].L1error = Neg(df[j].noise)
          /\ df[k].noise.n > 0 /\ df[k].L1error = df[k].noise
    /\ \E k \in DOMAIN noise : noise[k].n < 0

\* C19 as stated: once the statistics exist, the mean L1error is
\* non-increasing along the grid: a later row never has a larger mean.
C19_MeanErrorMonotone ==
    Has("stats") =>
        \A i, j \in DOMAIN stats :
            i < j => ~Less(stats[i].L1error, stats[j].L1error)

\* C19, amended: for the fixed sensitivity of the simulation, which is > 0,
\* the scale of the rows, the expected L1 error of one draw, is strictly
\* decreasing as epsilon increases across the grid; the sample means of the
\* statistics are positive, and are of draws that no order constrains.
C19_ExpectedErrorDecreasing ==
    /\ Has("df") =>
          \A a, b \in {<<df[k].epsilon, df[k].scale, df[k].sensitivity>> :
                          k \in DOMAIN df} :
              /\ a[3] = b[3]
              /\ Positive(a[3]) /\ Positive(a[2])
              /\ Less(a[1], b[1]) => Less(b[2], a[2])
    /\ Has("stats") => \A i \in DOMAIN stats : Positive(stats[i].L1error)

\* Two grid points whose sample means are in the order of their epsilons:
\* the smaller expected error came with the larger sample mean.
C19_Witness ==
    /\ Has("stats") /\ Len(stats) > 1
    /\ Less(stats[1].L1error, stats[2].L1error)
    /\ Less(df[Len(df)].scale, df[1].scale)

\* C21: a step that fails leaves every name of the pipeline as it was: the
\* parameters, the calibration, the noise, the tables, the error report and
\* the set of bound names.
C21_FailedStepAtomic ==
    [][error' # "none"
          => UNCHANGED <<sensitivity, epsilon, scale, probability, noise, heap,
                         noisytab, noisytabpost, errvars, defined>>]_vars

\* The published table the declared inputs determine: the policy applied to
\* true table + noise draw.
PublishedOf(tru, draw) == PostProcess(Add(tru, draw))

\* C22: with valid parameters, every execution of a step that publishes a
\* table or reports the error yields the value the declared inputs of that
\* moment determine (true table, noise draw, policy; sensitivity and epsilon
\* through the draw), whatever was executed before: a table step the
\* published table of true table + noise, an error step the report of that
\* published table.  A fresh run yields exactly these values, so an
\* execution that yields others is a second run with equal inputs and other
\* outputs.
C22_OutputsFunctionOfInputs ==
    [][(ValidLiterals /\ error' = "none") =>
          /\ (CreateNoisyTable \/ CreateNoisyTableAndMeasure) =>
                heap'[noisytabpost'] = PublishedOf(heap'[truetab'], noise')
          /\ (MeasureError \/ CreateNoisyTableAndMeasure) =>
                LET pub == PublishedOf(heap'[truetab'], noise')
                IN  /\ errortab' = AbsDiff(pub, heap'[truetab'])
                    /\ errorsum' = SumSum(AbsDiff(pub, heap'[truetab']))]_vars

\* C24: in the Laplace notebook every published cell is max(0, r), where r
\* is an integer nearest to the raw noisy cell and, when the raw cell lies
\* halfway between two integers, the even one; a raw cell in [-0.5, 0)
\* publishes 0.
C24_RoundThenClamp ==
    (kind = "Laplace" /\ Has("noisytabpost")) =>
        \A p \in Cells(heap[noisytab]) :
            LET raw == heap[noisytab].cells[p]
                pub == heap[noisytabpost].cells[p]
                k == raw \div Den
            IN  /\ \E r \in {k, k + 1} :
                      /\ 2 * Abs(raw - r * Den) <= Den
                      /\ 2 * Abs(raw - r * Den) = Den => r % 2 = 0
                      /\ pub = (IF r < 0 THEN 0 ELSE r)
                /\ (raw < 0 /\ -Den <= 2 * raw) => pub = 0

\* A raw cell of -0.5 published as 0 next to a raw cell of 1.5 published
\* as 2.
C24_Witness ==
    /\ kind = "Laplace" /\ Has("noisytabpost")
    /\ \E p, q \in Cells(heap[noisytab]) :
          /\ 2 * heap[noisytab].cells[p] = -Den /\ heap[noisytabpost].cells[p] = 0
          /\ 2 * heap[noisytab].cells[q] = 3 * Den /\ heap[noisytabpost].cells[q] = 2

\* A table of one cell and a draw of one cell.
OneCell(v) == Frame(<<"r">>, <<"c">>, "int", [p \in Pos(<<1, 1>>) |-> v])

OneDraw(v) == Array(<<1, 1>>, "int", [p \in Pos(<<1, 1>>) |-> v])

\* The absolute error of a cell with the true count t and the noise n once
\* the sum is clamped.
ClampedError(t, n) ==
    AbsDiff(Clamp(Add(OneCell(t), OneDraw(n))), OneCell(t)).cells[<<1, 1>>]

\* For one noise two true counts can give two errors.
ClampDependsOnData ==
    \E n \in (1 - MaxGeo) .. (MaxGeo - 1) : \E t1, t2 \in 0 .. MaxRecs :
        ClampedError(t1, n) # ClampedError(t2, n)

\* C25: a step of the Geometric notebook that builds the table and measures
\* the error leaves, for every cell with true count t and noise n: before
\* the clamp the distance |(t + n) - t| = |n| whatever t is; after the clamp
\* the error |n| exactly when t + n >= 0, and the error t, which is < |n|,
\* when t + n < 0.  The raw Laplace table is true + noise as well.  For one
\* noise two true counts can give two errors.
C25_ClampOnlyDataDependentStep ==
    [][/\ (CreateNoisyTableAndMeasure /\ error' = "none") =>
             \A p \in Cells(heap[truetab]) :
                 LET t == heap[truetab].cells[p]
                     n == noise.cells[p]
                     raw == Add(heap[truetab], noise).cells[p]
                     err == errortab'.cells[p]
                 IN  /\ Abs(raw - t) = Abs(n)
                     /\ (t + n >= 0) <=> (err = Abs(n))
                     /\ t + n < 0 => (err = t /\ t < Abs(n))
       /\ (CreateNoisyTable /\ error' = "none") =>
             \A p \in Cells(heap[truetab]) :
                 heap'[noisytab'].cells[p] - Den * heap[truetab].cells[p]
                     = noise.cells[p]
       /\ ClampDependsOnData]_vars

\* A table with a true zero and a true one under the noise -1: the first
\* cell is clamped and has the error 0, the second the error 1.
C25_Witness ==
    /\ kind = "Geometric" /\ Has("errortab") /\ error = "none"
    /\ \E p, q \in Cells(heap[truetab]) :
          /\ heap[truetab].cells[p] = 0 /\ heap[truetab].cells[q] = 1
          /\ noise.cells[p] = -1 /\ noise.cells[q] = -1
          /\ heap[noisytabpost].cells[p] = 0 /\ heap[noisytabpost].cells[q] = 0
          /\ errortab.cells[p] = 0 /\ errortab.cells[q] = 1

\* The sum of |noise| over the cells of a draw.
SumAbs(draw) ==
    SumOver([p \in DOMAIN draw.cells |-> Abs(draw.cells[p])], DOMAIN draw.cells)

\* The clamped cell of every true count and noise has an error of at most
\* |noise|.
ClampBoundsError ==
    \A t \in 0 .. MaxRecs : \A n \in (1 - MaxGeo) .. (MaxGeo - 1) :
        ClampedError(t, n) <= Abs(n)

\* C28: for every true count t >= 0 and every noise n the clamped cell has
\* an error of at most |n|; a step of the Geometric notebook that builds the
\* table and measures the error leaves in every cell an error of at most
\* |noise| and a total L1 error of at most the sum of |noise|, equal to it
\* exactly when no cell of true table + noise is negative.
C28_ClampNeverIncreasesError ==
    [][/\ ClampBoundsError
       /\ (CreateNoisyTableAndMeasure /\ error' = "none") =>
             /\ \A p \in Cells(heap[truetab]) :
                    /\ heap[truetab].cells[p] >= 0
                    /\ errortab'.cells[p] <= Abs(noise.cells[p])
             /\ errorsum' <= SumAbs(noise)
             /\ (errorsum' = SumAbs(noise))
                   <=> \A p \in Cells(heap[truetab]) :
                           heap[truetab].cells[p] + noise.cells[p] >= 0]_vars

\* The noise cell, then the table cell: a negative sum was clamped and the
\* total error is below the sum of |noise|.
C28_Witness ==
    /\ kind = "Geometric" /\ Has("errorsum") /\ error = "none" /\ runs = 2
    /\ \E p \in Cells(heap[truetab]) : heap[truetab].cells[p] + noise.cells[p] < 0
    /\ errorsum < SumAbs(noise)
    /\ errorsum > 0

\* C30: every step that measures the error leaves a relative L1 error that
\* is a finite number >= 0 when the cells of the true table sum to more
\* than 0, and then it is 0 exactly when the published table equals the
\* true table in every cell; when the true table is all zero the
\* denominator is 0 and the result is not a finite number.
C30_RelativeL1Defined ==
    [][((MeasureError \/ CreateNoisyTableAndMeasure) /\ error' = "none") =>
          LET tru == heap'[truetab']
              pub == heap'[noisytabpost']
              total == SumOver(tru.cells, Cells(tru))
          IN  /\ truesum' = total /\ total >= 0
              /\ total > 0 =>
                    /\ errorrel'.tag = "num"
                    /\ ~SignBit(errorrel')
                    /\ (errorrel'.n = 0)
                          <=> \A p \in Cells(tru) : pub.cells[p] = tru.cells[p]
              /\ total = 0 => errorrel'.tag \in {"inf", "nan"}]_vars

\* The noise cell, then the table cell over an empty population with a
\* published count above 0: the relative error is not finite.
C30_Witness ==
    /\ kind = "Geometric" /\ Has("errorrel") /\ error = "none" /\ runs = 2
    /\ truesum = 0 /\ SumSum(heap[truetab]) = 0
    /\ errorsum > 0 /\ errorrel = Inf

\* The number of records of a population with one occupation and sex.
CountOf(recs, occ, sex) ==
    Cardinality({k \in DOMAIN recs :
                    recs[k].Occupation = occ /\ recs[k].Sex = sex})

\* C26: once the data cell has run, the true table has the valid
\* occupations as its rows and the valid sexes as its columns, one cell per
\* pair; every cell is the number of records with that pair, is >= 0, and
\* the cells sum to the number of records.
C26_TrueTableConstruction ==
    Has("truetab") =>
        LET t == heap[truetab]
        IN  /\ t.index = OccupationsOfRun /\ t.columns = sexvalid
            /\ Cells(t) = Pos(<<Len(OccupationsOfRun), Len(sexvalid)>>)
            /\ \A p \in Cells(t) :
                  /\ t.cells[p] = CountOf(myrecs, OccupationsOfRun[p[1]], sexvalid[p[2]])
                  /\ t.cells[p] >= 0
            /\ SumSum(t) = Len(myrecs)

\* A population of MaxRecs records of one occupation and both sexes: the
\* other occupations have rows of zeros.
C26_Witness ==
    /\ Has("truetab") /\ Len(myrecs) = MaxRecs
    /\ \A k \in DOMAIN myrecs : myrecs[k].Occupation = OccupationsOfRun[1]
    /\ heap[truetab].cells[<<1, 1>>] = 1
    /\ heap[truetab].cells[<<1, 2>>] = MaxRecs - 1
    /\ \A p \in Cells(heap[truetab]) : p[1] > 1 => heap[truetab].cells[p] = 0
    /\ Len(heap[truetab].index) = 5

\* The true table of a population, as the data cell builds it.
TableOf(recs) == Reindex(Crosstab(recs), OccupationsOfRun, sexvalid)

\* The cells in which two tables differ, and their L1 distance.
DiffCells(a, b) == {p \in Cells(a) : a.cells[p] # b.cells[p]}

L1Distance(a, b) ==
    SumOver([p \in Cells(a) |-> Abs(a.cells[p] - b.cells[p])], Cells(a))

RecordValues == [Occupation : Range(OccupationsOfRun), Sex : Range(sexvalid)]

\* The population without its i-th record.
Without(recs, i) ==
    [k \in 1 .. (Len(recs) - 1) |-> IF k < i THEN recs[k] ELSE recs[k + 1]]

\* C29: once the data cell has run, the true table of every population
\* with one record more or one record less differs from the true table in
\* exactly one cell, by exactly 1, so that the L1 distance is the
\* sensitivity 1 of the noise cell; the true table of every population with
\* one record's categories replaced is at L1 distance at most 2.
C29_CountTableSensitivity ==
    Has("truetab") =>
        LET t == heap[truetab]
            Neighbours == {Append(myrecs, r) : r \in RecordValues}
                              \cup {Without(myrecs, i) : i \in DOMAIN myrecs}
            Replaced == {[myrecs EXCEPT ![i] = r] :
                            i \in DOMAIN myrecs, r \in RecordValues}
        IN  /\ \A q \in Neighbours :
                  /\ Cardinality(DiffCells(TableOf(q), t)) = 1
                  /\ L1Distance(TableOf(q), t) = 1
                  /\ Lit(L1Distance(TableOf(q), t), 1) = lit.sensitivity
            /\ \A q \in Replaced : L1Distance(TableOf(q), t) <= 2

\* A population of two records with different categories: removing the
\* first changes one cell by 1, giving it the categories of the second
\* changes two cells.
C29_Witness ==
    /\ Has("truetab") /\ Len(myrecs) = 2 /\ myrecs[1] # myrecs[2]
    /\ L1Distance(TableOf(Tail(myrecs)), heap[truetab]) = 1
    /\ L1Distance(TableOf(Append(myrecs, myrecs[1])), heap[truetab]) = 1
    /\ L1Distance(TableOf([myrecs EXCEPT ![1] = myrecs[2]]), heap[truetab]) = 2

\* C27 as stated: for a sensitivity > 0, every epsilon > 0 above the
\* calibrated one has a strictly smaller scale.
C27_ScaleStrictlyDecreasing ==
    (Has("scale") /\ Positive(sensitivity) /\ Positive(epsilon)) =>
        \A e \in CalibrationEpsilons :
            Less(epsilon, e) => Less(Scale(sensitivity, e), scale)

\* C27, amended: for a sensitivity > 0 the scale is positive and never
\* increases with epsilon: every epsilon above the calibrated one has a scale
\* that is smaller or, for an epsilon within rounding of it, the same float;
\* between two points of one sweep grid the scale strictly decreases.
C27_ScaleNonIncreasing ==
    (Has("scale") /\ Positive(sensitivity) /\ Positive(epsilon)) =>
        /\ Positive(scale)
        /\ \A e \in CalibrationEpsilons :
              Less(epsilon, e) =>
                  /\ ~Less(scale, Scale(sensitivity, e))
                  /\ (\E g \in SweepGrids : {epsilon, e} \subseteq Range(g))
                        => Less(Scale(sensitivity, e), scale)

\* Two neighbouring floats below 2 as epsilon: the larger one has the same
\* scale as the calibrated one, and the epsilon 2 a smaller one.
C27_Witness ==
    /\ Has("scale") /\ sensitivity = Lit(1, 1)
    /\ epsilon = Float(Pow2[Mantissa] - 2, Pow2[Mantissa - 1], FALSE)
    /\ scale = Scale(sensitivity, Float(Pow2[Mantissa] - 1, Pow2[Mantissa - 1], FALSE))
    /\ Less(Scale(sensitivity, Lit(2, 1)), scale)

RECURSIVE Concat(_)
Concat(qs) == IF Len(qs) = 0 THEN <<>> ELSE Head(qs) \o Concat(Tail(qs))

\* The rows of rows in the sequential order: grid point after grid point,
\* and the rows of a grid point by their draw.
Sequential(rows) ==
    LET keys == Ascending({rows[k].epsilon : k \in DOMAIN rows})
        draws == Ascending({rows[k].noise : k \in DOMAIN rows})
    IN  Concat([i \in DOMAIN keys |->
                  Concat([j \in DOMAIN draws |->
                            SelectSeq(rows, LAMBDA r :
                                r.epsilon = keys[i] /\ r.noise = draws[j])])])

\* The number of rows of every key, in ascending order of the keys.
CountsOf(rows) ==
    LET keys == Ascending({rows[k].epsilon : k \in DOMAIN rows})
    IN  [i \in DOMAIN keys |->
            Cardinality({k \in DOMAIN rows : rows[k].epsilon = keys[i]})]

\* a and b differ by at most 2^-(Mantissa - 4) of the larger.
Within(a, b) ==
    LET t == AbsF(Minus(a, b))
        m == IF Less(AbsF(a), AbsF(b)) THEN AbsF(b) ELSE AbsF(a)
    IN  ~Less(m, Float(t.n * Pow2[Mantissa - 4], t.d, FALSE))

\* C23 as stated: once the statistics exist, they are those of the rows in
\* the sequential order: the same mean and standard deviation for every
\* epsilon, whatever the order of the rows.
C23_OrderIndependent ==
    Has("stats") => stats = Aggregate(Sequential(df))

\* C23, amended: once the statistics exist, whatever the order of the rows,
\* every epsilon has the same number of rows and one triple as for the
\* sequential order, and its mean and the square of its standard deviation
\* differ from those of the sequential order by at most 2^-(Mantissa - 4) of
\* their value.
C23_OrderIndependentUpToRounding ==
    Has("stats") =>
        LET seq == Aggregate(Sequential(df))
        IN  /\ CountsOf(df) = CountsOf(Sequential(df))
            /\ \A i \in DOMAIN epsset :
                  Len(Group(df, epsset[i], "L1error")) = numrecs
            /\ DOMAIN stats = DOMAIN seq
            /\ \A i \in DOMAIN stats :
                  /\ stats[i].epsilon = seq[i].epsilon
                  /\ Within(stats[i].L1error, seq[i].L1error)
                  /\ stats[i].L1std.tag = seq[i].L1std.tag
                  /\ Within([stats[i].L1std EXCEPT !.tag = "num"],
                            [seq[i].L1std EXCEPT !.tag = "num"])

\* Rows that start with a unit of the second grid point: the mean of a grid
\* point is not the float of the sequential order, and is within rounding
\* of it.
C23_Witness ==
    /\ Has("stats") /\ Len(stats) = 2
    /\ df[1].index = 1
    /\ df # Sequential(df)
    /\ \E i \in DOMAIN stats :
          /\ stats[i].L1error # Aggregate(Sequential(df))[i].L1error
          /\ Within(stats[i].L1error, Aggregate(Sequential(df))[i].L1error)

====
